---- MODULE Spec2Model ----
(***************************************************************************)
(* Query pipeline (classify_intent -> fetch_weather | retrieve_from_pdf -> *)
(* generate_response) of src/src/graph, the VectorStore of                 *)
(* src/src/services/vector_store.py with its two backends, the weather     *)
(* lookup of src/src/services/weather_services.py and the ingestion flow   *)
(* of src/app.py.                                                          *)
(*                                                                         *)
(* Text that passes through str.strip() / str.lower() or is compared with  *)
(* language-model output is a sequence of one-character strings, so that   *)
(* the conversions are computed and not assumed.  Python's None inside a   *)
(* weather snapshot is the token "None"; an empty dict is <<>>.            *)
(***************************************************************************)
EXTENDS Integers, Sequences, FiniteSets, TLC

(* ------------------------------ bounds -------------------------------- *)
\* VectorStore objects constructed in one process (the pipeline's included)
MaxStores == 2
\* uuid4() values drawn in one process
MaxUuids == 2
\* longest chunk list / embedding list handed to store_embeddings
MaxBatch == 2

(* --------------------------- literal texts ---------------------------- *)
WEATHER ==
    <<"w","e","a","t","h","e","r">>
PDF ==
    <<"p","d","f">>
UNKNOWN ==
    <<"u","n","k","n","o","w","n">>
ERROR ==
    <<"e","r","r","o","r">>
GROQ_APOLOGY ==
    <<"I"," ","a","p","o","l","o","g","i","z","e",","," ","b","u","t"," ","I"," ","e","n","c",
      "o","u","n","t","e","r","e","d"," ","a","n"," ","e","r","r","o","r"," ","p","r","o","c",
      "e","s","s","i","n","g"," ","y","o","u","r"," ","r","e","q","u","e","s","t",".">>
NO_WEATHER_MSG ==
    <<"I"," ","c","o","u","l","d","n","'","t"," ","r","e","t","r","i","e","v","e"," ","w","e",
      "a","t","h","e","r"," ","i","n","f","o","r","m","a","t","i","o","n","."," ","P","l","e",
      "a","s","e"," ","c","h","e","c","k"," ","t","h","e"," ","c","i","t","y"," ","n","a","m",
      "e"," ","a","n","d"," ","t","r","y"," ","a","g","a","i","n",".">>
NO_DOCS_MSG ==
    <<"I"," ","c","o","u","l","d","n","'","t"," ","f","i","n","d"," ","r","e","l","e","v","a",
      "n","t"," ","i","n","f","o","r","m","a","t","i","o","n"," ","i","n"," ","t","h","e"," ",
      "d","o","c","u","m","e","n","t","."," ","P","l","e","a","s","e"," ","t","r","y"," ","r",
      "e","p","h","r","a","s","i","n","g"," ","y","o","u","r"," ","q","u","e","s","t","i","o",
      "n",".">>
NODE_APOLOGY ==
    <<"I"," ","a","p","o","l","o","g","i","z","e",","," ","b","u","t"," ","I"," ","e","n","c",
      "o","u","n","t","e","r","e","d"," ","a","n"," ","e","r","r","o","r"," ","w","h","i","l",
      "e"," ","p","r","o","c","e","s","s","i","n","g"," ","y","o","u","r"," ","r","e","q","u",
      "e","s","t",".">>
DRIVER_ERROR_MSG ==
    <<"I"," ","e","n","c","o","u","n","t","e","r","e","d"," ","a","n"," ","e","r","r","o","r",
      " ","w","h","i","l","e"," ","p","r","o","c","e","s","s","i","n","g"," ","y","o","u","r",
      " ","r","e","q","u","e","s","t","."," ","P","l","e","a","s","e"," ","t","r","y"," ","a",
      "g","a","i","n",".">>
TXT_Weather_nl ==
    <<" ","W","e","a","t","h","e","r","\n">>
TXT_PDF_up ==
    <<"P","D","F">>
TXT_weather_pdf ==
    <<"w","e","a","t","h","e","r"," ","p","d","f">>
TXT_empty ==
    <<>>
TXT_answer ==
    <<"I","t"," ","i","s"," ","s","u","n","n","y",".">>
TXT_London ==
    <<"L","o","n","d","o","n">>
TXT_Paris_sp ==
    <<" ","P","a","r","i","s"," ">>

(* ----------------------------- str methods ---------------------------- *)
UPPERCASE == <<"A","B","C","D","E","F","G","H","I","J","K","L","M",
               "N","O","P","Q","R","S","T","U","V","W","X","Y","Z">>
LOWERCASE == <<"a","b","c","d","e","f","g","h","i","j","k","l","m",
               "n","o","p","q","r","s","t","u","v","w","x","y","z">>
WHITESPACE == {" ", "\n", "\t", "\r"}

\* the lower-case counterpart of each upper-case letter
TO_LOWER ==
    [c \in {UPPERCASE[i] : i \in DOMAIN UPPERCASE} |->
        LOWERCASE[CHOOSE i \in DOMAIN UPPERCASE : UPPERCASE[i] = c]]

lower_char(c) == IF c \in DOMAIN TO_LOWER THEN TO_LOWER[c] ELSE c

\* str.lower(): a new string, character by character
lower(s) == <<>> \o [i \in 1..Len(s) |-> lower_char(s[i])]

RECURSIVE lstrip(_)
lstrip(s) == IF s # <<>> /\ Head(s) \in WHITESPACE THEN lstrip(Tail(s)) ELSE s

RECURSIVE rstrip(_)
rstrip(s) ==
    IF s # <<>> /\ s[Len(s)] \in WHITESPACE THEN rstrip(SubSeq(s, 1, Len(s) - 1)) ELSE s

\* str.strip()
strip(s) == rstrip(lstrip(s))

Min(a, b) == IF a <= b THEN a ELSE b
Max(a, b) == IF a >= b THEN a ELSE b

\* the list slice xs[:n] of Python, n any integer
slice_to(xs, n) ==
    IF n >= 0 THEN SubSeq(xs, 1, Min(n, Len(xs)))
    ELSE SubSeq(xs, 1, Max(0, Len(xs) + n))

\* {**a, **b}: the keys of both, b's value where both have the key
dict_merge(a, b) ==
    [k \in (DOMAIN a) \cup (DOMAIN b) |-> IF k \in DOMAIN b THEN b[k] ELSE a[k]]

\* {k: v for k, v in d.items() if k != key}
dict_without(d, key) == [k \in (DOMAIN d) \ {key} |-> d[k]]

(* --------------------------- language model --------------------------- *)
\* What the chat model underneath GroqService does on one call: it answers
\* with some text, or the call raises.
LLMOutcomes(replies) ==
    {[ok |-> TRUE, text |-> t] : t \in replies} \cup {[ok |-> FALSE, text |-> <<>>]}

CLASSIFY_REPLIES == {WEATHER, PDF, TXT_Weather_nl, TXT_PDF_up, TXT_weather_pdf, TXT_empty}
CITY_REPLIES == {TXT_London, TXT_Paris_sp}
ANSWER_REPLIES == {TXT_answer}

\* GroqService.invoke: every exception of the model call is swallowed here
invoke(llm) ==
    IF llm.ok THEN [content |-> llm.text] ELSE [content |-> GROQ_APOLOGY]

(* ------------------------------ weather ------------------------------- *)
\* Response fields the provider may leave out of a JSON object body.
BODY_FIELDS == {"name", "sys.country", "main.temp", "main.feels_like",
                "main.humidity", "wind.speed"}
\* Shapes of the 'weather' entry of the body.
WEATHER_SHAPES == {"absent", "empty_list", "no_description", "null_description",
                   "description"}
\* 'cod' of the body: the number 200, the string '200', another code, no key.
COD_VALUES == {"200", "'200'", "404", "absent"}

\* One HTTP exchange with the provider: requests.get / raise_for_status
\* raise a RequestException, the body is JSON but not an object, or the body
\* is an object with some of its fields left out.
HttpOutcomes ==
    {[kind |-> k, cod |-> "absent", absent |-> {}, weather |-> "absent"] :
        k \in {"RequestException", "not_an_object"}}
    \cup
    {[kind |-> "object", cod |-> c, absent |-> a, weather |-> w] :
        c \in COD_VALUES,
        a \in {s \in SUBSET BODY_FIELDS : Cardinality(s) <= 1 \/ s = BODY_FIELDS},
        w \in WEATHER_SHAPES}

\* data.get(<field>, default) for the fixed values the provider sends
body_get(http, field, value, default) ==
    IF field \in http.absent THEN default ELSE value

\* WeatherService.get_weather.  raised: an exception left the method;
\* is_none: it returned None; value: the snapshot otherwise.
get_weather(city, http) ==
    LET none == [raised |-> FALSE, is_none |-> TRUE, value |-> <<>>]
    IN  CASE http.kind = "RequestException" -> none
          [] http.kind = "not_an_object" ->
                [raised |-> TRUE, is_none |-> FALSE, value |-> <<>>]
          [] http.cod \notin {"200", "'200'"} -> none
          [] http.weather = "empty_list" -> none
          [] OTHER ->
                [raised |-> FALSE, is_none |-> FALSE, value |->
                    [city |-> body_get(http, "name", TXT_London, city),
                     country |-> body_get(http, "sys.country", "GB", ""),
                     temperature |-> body_get(http, "main.temp", "15.5", "None"),
                     feels_like |-> body_get(http, "main.feels_like", "14.2", "None"),
                     humidity |-> body_get(http, "main.humidity", "65", "None"),
                     description |->
                        CASE http.weather = "description" -> "cloudy"
                          [] http.weather = "null_description" -> "None"
                          [] OTHER -> "",
                     wind_speed |-> body_get(http, "wind.speed", "3.2", "None")]]

\* dict.get(key, default) on a weather snapshot
snapshot_get(weather_data, key, default) ==
    IF key \in DOMAIN weather_data THEN weather_data[key] ELSE default

\* str.title() of the description texts
title(s) ==
    CASE s = "cloudy" -> "Cloudy"
      [] s = "Unknown" -> "Unknown"
      [] OTHER -> s

\* WeatherService.format_weather_response.  text: the values the f-string
\* interpolates, in order; raised: None has no title(), AttributeError
\* leaves the method.
format_weather_response(weather_data) ==
    IF DOMAIN weather_data = {}
    THEN [raised |-> FALSE, text |-> <<"Weather data not available.">>]
    ELSE IF snapshot_get(weather_data, "description", "Unknown") = "None"
    THEN [raised |-> TRUE, text |-> <<>>]
    ELSE [raised |-> FALSE, text |->
            <<snapshot_get(weather_data, "city", "Unknown"),
              snapshot_get(weather_data, "country", ""),
              snapshot_get(weather_data, "temperature", "N/A"),
              snapshot_get(weather_data, "feels_like", "N/A"),
              title(snapshot_get(weather_data, "description", "Unknown")),
              snapshot_get(weather_data, "humidity", "N/A"),
              snapshot_get(weather_data, "wind_speed", "N/A")>>]

(* ------------------------- embeddings, scores ------------------------- *)
\* Embedding vectors, cut down to two integer components.
VECTORS == {<<1, 0>>, <<1, 1>>, <<0, 0>>}
QUERIES == {"", "what is in the document?"}

\* The sentence-transformers model is a fixed function of the text.
encode(text) ==
    CASE text \in {"", "beta", "delta"} -> <<0, 1>>
      [] text \in {"what is in the document?", "alpha"} -> <<1, 0>>
      [] OTHER -> <<1, 1>>

\* PDFService.create_query_embedding: the vector, or [] when encode raised
create_query_embedding(query, embed_ok) == IF embed_ok THEN encode(query) ELSE <<>>

dot(v1, v2) == v1[1] * v2[1] + v1[2] * v2[2]

\* A score is the real number num / sqrt(densq), kept exact.
ZERO_SCORE == [num |-> 0, densq |-> 1]

\* a similarity that leaves out the division by the norms
cosine_similarity_Unnormalised(vec1, vec2) ==
    [num |-> dot(vec1, vec2), densq |-> 1]

\* VectorStore._cosine_similarity
cosine_similarity(vec1, vec2) ==
    LET dot_product == dot(vec1, vec2)
        norm1sq == dot(vec1, vec1)
        norm2sq == dot(vec2, vec2)
    IN  IF norm1sq = 0 \/ norm2sq = 0 THEN ZERO_SCORE
        ELSE [num |-> dot_product, densq |-> norm1sq * norm2sq]

signed_square(n) == IF n >= 0 THEN n * n ELSE -(n * n)

\* a >= b for two scores
score_ge(a, b) ==
    signed_square(a.num) * b.densq >= signed_square(b.num) * a.densq

\* list.sort(key=lambda x: x[0], reverse=True): stable, so an element goes
\* behind every element already placed whose score is >= its own
RECURSIVE insert_desc(_, _)
insert_desc(sorted, x) ==
    IF sorted = <<>> THEN <<x>>
    ELSE IF score_ge(Head(sorted).score, x.score)
         THEN <<Head(sorted)>> \o insert_desc(Tail(sorted), x)
         ELSE <<x>> \o sorted

RECURSIVE sort_desc(_)
sort_desc(xs) ==
    IF xs = <<>> THEN <<>>
    ELSE insert_desc(sort_desc(SubSeq(xs, 1, Len(xs) - 1)), xs[Len(xs)])

(* ----------------------------- VectorStore ---------------------------- *)
\* A VectorStore object: use_cloud, and the _memory_store attribute, which
\* exists only once a line "self._memory_store = []" has run.
\* The persistent collection: exists, and its points in upsert order.

\* Chunk texts are payload only: a chunk list is a prefix of CHUNK_TEXTS.
CHUNK_TEXTS == <<"alpha", "beta", "gamma", "delta">>
CHUNK_LISTS == {SubSeq(CHUNK_TEXTS, 1, k) : k \in 0..MaxBatch}
\* caller-supplied metadata; <<>> stands for both None and {}
METADATAS == {<<>>, [filename |-> "doc.pdf"]}
\* zip never reads an embedding that has no chunk: such surplus entries
\* are all this vector
PAD_VECTOR == <<0, 0>>
LIMITS == {-1, 0, 1, 3}

SeqsUpTo(S, n) == UNION {[1..k -> S] : k \in 0..n}

\* VectorStore._ensure_collection.  raises: get_collections or
\* create_collection raised.
_ensure_collection(self, cloud, raises) ==
    IF ~self.use_cloud THEN [self |-> self, cloud |-> cloud]
    ELSE IF raises
         THEN [self |-> [self EXCEPT !.use_cloud = FALSE,
                                     !.has_memory_store = TRUE,
                                     !.memory_store = <<>>],
               cloud |-> cloud]
         ELSE [self |-> self, cloud |-> [cloud EXCEPT !.exists = TRUE]]

\* VectorStore.__init__.  credentials: Config.QDRANT_URL and
\* Config.QDRANT_API_KEY are both set.
VectorStore_init(credentials, cloud, raises) ==
    IF credentials
    THEN _ensure_collection(
            [use_cloud |-> TRUE, has_memory_store |-> FALSE, memory_store |-> <<>>],
            cloud, raises)
    ELSE [self |-> [use_cloud |-> FALSE, has_memory_store |-> TRUE,
                    memory_store |-> <<>>],
          cloud |-> cloud]

\* zip(chunks, embeddings)
zip_len(chunks, embeddings) == Min(Len(chunks), Len(embeddings))

\* VectorStore._store_memory.  uuid0: the next value uuid4() gives.
\* Appending to a _memory_store that was never assigned raises
\* AttributeError inside the try: the method returns False.
_store_memory(self, chunks, embeddings, metadata, uuid0) ==
    LET n == zip_len(chunks, embeddings)
        items == [i \in 1..n |->
                    [id |-> uuid0 + (i - 1),
                     vector |-> embeddings[i],
                     text |-> chunks[i],
                     chunk_index |-> i - 1,
                     metadata |-> metadata]]
    IN  IF n > 0 /\ ~self.has_memory_store
        THEN [self |-> self, ok |-> FALSE, uuids |-> 0]
        ELSE [self |-> [self EXCEPT !.memory_store = @ \o items],
              ok |-> TRUE, uuids |-> n]

\* VectorStore._store_cloud.  raises: client.upsert raised.
_store_cloud(self, cloud, chunks, embeddings, metadata, uuid0, raises) ==
    LET n == zip_len(chunks, embeddings)
        points == [i \in 1..n |->
                    [id |-> uuid0 + (i - 1),
                     vector |-> embeddings[i],
                     payload |-> dict_merge(
                        [text |-> chunks[i], chunk_index |-> i - 1], metadata)]]
    IN  IF ~raises /\ cloud.exists
        THEN [self |-> self, cloud |-> [cloud EXCEPT !.points = @ \o points],
              ok |-> TRUE, uuids |-> n, cloud_raised |-> FALSE]
        ELSE LET fallback == _store_memory([self EXCEPT !.use_cloud = FALSE],
                                           chunks, embeddings, metadata, uuid0 + n)
             IN  [self |-> fallback.self, cloud |-> cloud,
                  ok |-> fallback.ok, uuids |-> n + fallback.uuids,
                  cloud_raised |-> TRUE]

\* VectorStore.store_embeddings
store_embeddings(self, cloud, chunks, embeddings, metadata, uuid0, raises) ==
    IF self.use_cloud
    THEN _store_cloud(self, cloud, chunks, embeddings, metadata, uuid0, raises)
    ELSE LET r == _store_memory(self, chunks, embeddings, metadata, uuid0)
         IN  [self |-> r.self, cloud |-> cloud, ok |-> r.ok, uuids |-> r.uuids,
              cloud_raised |-> FALSE]

\* _search_memory whose ranking puts records of equal score latest first
_search_memory_TiesReversed(self, query, limit, embed_ok) ==
    LET query_embedding == create_query_embedding(query, embed_ok)
        n == Len(self.memory_store)
        similarities == [i \in 1..n |->
                            [score |-> cosine_similarity(query_embedding,
                                                         self.memory_store[n + 1 - i].vector),
                             item |-> self.memory_store[n + 1 - i]]]
        top == slice_to(sort_desc(similarities), limit)
    IN  IF ~self.has_memory_store THEN <<>>
        ELSE IF self.memory_store = <<>> THEN <<>>
        ELSE IF query_embedding = <<>> THEN <<>>
        ELSE [i \in 1..Len(top) |->
                [text |-> top[i].item.text,
                 score |-> top[i].score,
                 metadata |-> top[i].item.metadata]]

\* VectorStore._search_memory.  Reading a _memory_store that was never
\* assigned raises AttributeError inside the try: the method returns [].
_search_memory(self, query, limit, embed_ok) ==
    LET query_embedding == create_query_embedding(query, embed_ok)
        similarities == [i \in 1..Len(self.memory_store) |->
                            [score |-> cosine_similarity(query_embedding,
                                                         self.memory_store[i].vector),
                             item |-> self.memory_store[i]]]
        top == slice_to(sort_desc(similarities), limit)
    IN  IF ~self.has_memory_store THEN <<>>
        ELSE IF self.memory_store = <<>> THEN <<>>
        ELSE IF query_embedding = <<>> THEN <<>>
        ELSE [i \in 1..Len(top) |->
                [text |-> top[i].item.text,
                 score |-> top[i].score,
                 metadata |-> top[i].item.metadata]]

\* client.search of the persistent store: the limit nearest points by
\* cosine similarity, best first.
cloud_search(cloud, query_vector, limit) ==
    LET scored == [i \in 1..Len(cloud.points) |->
                     [score |-> cosine_similarity(query_vector, cloud.points[i].vector),
                      item |-> cloud.points[i]]]
    IN  slice_to(sort_desc(scored), limit)

\* _search_cloud whose except branch keeps the backend selected
_search_cloud_NoDemotion(self, cloud, query, limit, embed_ok, raises, embed_ok2) ==
    LET query_embedding == create_query_embedding(query, embed_ok)
        results == cloud_search(cloud, query_embedding, limit)
    IN  IF query_embedding = <<>>
        THEN [self |-> self, docs |-> <<>>, cloud_raised |-> FALSE]
        ELSE IF raises \/ ~cloud.exists \/ limit < 0
        THEN [self |-> self,
              docs |-> _search_memory(self, query, limit, embed_ok2),
              cloud_raised |-> TRUE]
        ELSE [self |-> self,
              docs |-> [i \in 1..Len(results) |->
                          [text |-> IF "text" \in DOMAIN results[i].item.payload
                                    THEN results[i].item.payload.text ELSE "",
                           score |-> results[i].score,
                           metadata |-> dict_without(results[i].item.payload, "text")]],
              cloud_raised |-> FALSE]

\* VectorStore._search_cloud.  raises: client.search raised; embed_ok2: the
\* embedder works when the fallback search embeds the query again.
_search_cloud(self, cloud, query, limit, embed_ok, raises, embed_ok2) ==
    LET query_embedding == create_query_embedding(query, embed_ok)
        results == cloud_search(cloud, query_embedding, limit)
    IN  IF query_embedding = <<>>
        THEN [self |-> self, docs |-> <<>>, cloud_raised |-> FALSE]
        ELSE IF raises \/ ~cloud.exists \/ limit < 0
        THEN LET demoted == [self EXCEPT !.use_cloud = FALSE]
             IN  [self |-> demoted,
                  docs |-> _search_memory(demoted, query, limit, embed_ok2),
                  cloud_raised |-> TRUE]
        ELSE [self |-> self,
              docs |-> [i \in 1..Len(results) |->
                          [text |-> IF "text" \in DOMAIN results[i].item.payload
                                    THEN results[i].item.payload.text ELSE "",
                           score |-> results[i].score,
                           metadata |-> dict_without(results[i].item.payload, "text")]],
              cloud_raised |-> FALSE]

\* VectorStore.search_similar
search_similar(self, cloud, query, limit, embed_ok, raises, embed_ok2) ==
    IF self.use_cloud
    THEN _search_cloud(self, cloud, query, limit, embed_ok, raises, embed_ok2)
    ELSE [self |-> self, docs |-> _search_memory(self, query, limit, embed_ok),
          cloud_raised |-> FALSE]

\* VectorStore.get_collection_info.  raises: client.get_collection raised.
\* raised: AttributeError left the method (the local branch reads
\* len(self._memory_store) outside any try).
get_collection_info(self, cloud, raises) ==
    IF self.use_cloud
    THEN IF raises \/ ~cloud.exists
         THEN [raised |-> FALSE, storage |-> "Qdrant Cloud (error)", points_count |-> 0]
         ELSE [raised |-> FALSE, storage |-> "Qdrant Cloud",
               points_count |-> Len(cloud.points)]
    ELSE IF ~self.has_memory_store
         THEN [raised |-> TRUE, storage |-> "In-Memory", points_count |-> 0]
         ELSE [raised |-> FALSE, storage |-> "In-Memory",
               points_count |-> Len(self.memory_store)]

(* --------------------------- pipeline nodes --------------------------- *)
\* apply_update that also writes an empty query with every update
apply_update_ClearsQuery(state, update) ==
    dict_merge(state, dict_merge(update, [query |-> ""]))

\* The update a node returns replaces the named keys of the graph state
\* (StateGraph(GraphState): no reducer on any key).
apply_update(state, update) == dict_merge(state, update)

\* classify_intent without the coercion of unrecognised labels
classify_intent_Uncoerced(state, llm) ==
    LET response == invoke(llm)
        intent == lower(strip(response.content))
    IN  [intent |-> intent, metadata |-> [intent_classification |-> intent]]

\* GraphNodes.classify_intent.  invoke never raises, so the except branch
\* of the node has nothing to catch.
classify_intent(state, llm) ==
    LET response == invoke(llm)
        raw == lower(strip(response.content))
        intent == IF raw \notin {WEATHER, PDF} THEN PDF ELSE raw
    IN  [intent |-> intent, metadata |-> [intent_classification |-> intent]]

\* a router that ignores the classification
_route_by_intent_Constant(state) == PDF

\* AIProcessingGraph._route_by_intent
_route_by_intent(state) == state.intent

\* a conditional edge that leads past both branches
next_node_SkipBranch(state) == "generate_response"

\* a conditional edge with the two targets exchanged
next_node_Swapped(state) ==
    IF _route_by_intent(state) = WEATHER THEN "retrieve_from_pdf" ELSE "fetch_weather"

\* add_conditional_edges("classify_intent", _route_by_intent,
\* {"weather": "fetch_weather", "pdf": "retrieve_from_pdf"}): a key outside
\* the mapping raises KeyError inside graph.invoke.
next_node(state) ==
    LET key == _route_by_intent(state)
    IN  IF key = WEATHER THEN "fetch_weather"
        ELSE IF key = PDF THEN "retrieve_from_pdf"
        ELSE "KeyError"

\* GraphNodes.fetch_weather
fetch_weather(state, llm, http) ==
    LET response == invoke(llm)
        city == strip(response.content)
        weather_data == get_weather(city, http)
    IN  IF weather_data.raised THEN [weather_data |-> <<>>]
        ELSE IF weather_data.is_none THEN [weather_data |-> <<>>]
        ELSE [weather_data |-> weather_data.value]

\* GraphNodes.retrieve_from_pdf: search_similar(state["query"], limit=3) on
\* the node object's own VectorStore
retrieve_from_pdf(state, vector_store, cloud, embed_ok, raises, embed_ok2) ==
    LET r == search_similar(vector_store, cloud, state.query, 3,
                            embed_ok, raises, embed_ok2)
    IN  [update |-> [retrieved_docs |-> r.docs], self |-> r.self,
         cloud_raised |-> r.cloud_raised]

\* _generate_weather_response without the check for missing data
_generate_weather_response_Unchecked(state, llm) ==
    [raised |-> FALSE, text |-> invoke(llm).content, llm_called |-> TRUE]

\* GraphNodes._generate_weather_response
_generate_weather_response(state, llm) ==
    IF DOMAIN state.weather_data = {}
    THEN [raised |-> FALSE, text |-> NO_WEATHER_MSG, llm_called |-> FALSE]
    ELSE IF format_weather_response(state.weather_data).raised
    THEN [raised |-> TRUE, text |-> <<>>, llm_called |-> FALSE]
    ELSE [raised |-> FALSE, text |-> invoke(llm).content, llm_called |-> TRUE]

\* _generate_pdf_response without the check for missing documents
_generate_pdf_response_Unchecked(state, llm) ==
    [raised |-> FALSE, text |-> invoke(llm).content, llm_called |-> TRUE]

\* GraphNodes._generate_pdf_response
_generate_pdf_response(state, llm) ==
    IF state.retrieved_docs = <<>>
    THEN [raised |-> FALSE, text |-> NO_DOCS_MSG, llm_called |-> FALSE]
    ELSE [raised |-> FALSE, text |-> invoke(llm).content, llm_called |-> TRUE]

\* GraphNodes.generate_response
generate_response(state, llm) ==
    LET response == IF state.intent = WEATHER
                    THEN _generate_weather_response(state, llm)
                    ELSE _generate_pdf_response(state, llm)
    IN  IF response.raised
        THEN [update |-> [final_response |-> NODE_APOLOGY], llm_called |-> FALSE]
        ELSE [update |-> [final_response |-> response.text],
              llm_called |-> response.llm_called]

\* AIProcessingGraph.process_query: initial_state
initial_state(query) ==
    [query |-> query, intent |-> <<>>, weather_data |-> <<>>,
     retrieved_docs |-> <<>>, final_response |-> <<>>, metadata |-> <<>>]

\* a result mapping that leaves out the document count
process_query_result_NoCount(query, final) ==
    [query |-> query,
     intent |-> final.intent,
     response |-> final.final_response,
     weather_data |-> final.weather_data,
     metadata |-> final.metadata]

\* AIProcessingGraph.process_query: the mapping returned after graph.invoke
process_query_result(query, final) ==
    [query |-> query,
     intent |-> final.intent,
     response |-> final.final_response,
     weather_data |-> final.weather_data,
     retrieved_docs_count |-> Len(final.retrieved_docs),
     metadata |-> final.metadata]

\* AIProcessingGraph.process_query: the mapping returned by the except branch
process_query_error(query) ==
    [query |-> query,
     intent |-> UNKNOWN,
     response |-> DRIVER_ERROR_MSG,
     weather_data |-> <<>>,
     retrieved_docs_count |-> 0,
     metadata |-> [error |-> "KeyError"]]

\* AIProcessingGraph.process_query, from the end of graph.invoke on: at is
\* "END" when invoke returned the final state, the exception when it raised
process_query(query, at, final) ==
    IF at = "END" THEN process_query_result(query, final)
    ELSE process_query_error(query)

(* ----------------------------- ingestion ------------------------------ *)
\* An uploaded file: what extract_text_from_pdf gives for it ("" also when
\* reading raised) and what the text splitter makes of the text.
PDFS ==
    {[text |-> t, split |-> <<>>] : t \in {"", "blank"}}
    \cup {[text |-> "content", split |-> s] :
            s \in CHUNK_LISTS \ {<<>>}}

\* PDFService.chunk_text
chunk_text(pdf) == IF pdf.text = "blank" THEN <<>> ELSE pdf.split

\* PDFService.create_embeddings: one vector per chunk, or [] when encode raised
create_embeddings(chunks, embed_ok) ==
    IF embed_ok THEN [i \in 1..Len(chunks) |-> encode(chunks[i])] ELSE <<>>

\* PDFService.process_pdf
process_pdf(pdf, embed_ok) ==
    IF pdf.text = "" THEN [chunks |-> <<>>, embeddings |-> <<>>]
    ELSE IF chunk_text(pdf) = <<>> THEN [chunks |-> <<>>, embeddings |-> <<>>]
    ELSE [chunks |-> chunk_text(pdf),
          embeddings |-> create_embeddings(chunk_text(pdf), embed_ok),
          metadata |-> [source |-> "tmp.pdf", total_chunks |-> Len(chunk_text(pdf))]]

(* ------------------------------- state -------------------------------- *)
VARIABLES
    creds,          \* Config.QDRANT_URL and Config.QDRANT_API_KEY are set
    cloud,          \* the persistent collection: [exists, points]
    stores,         \* the VectorStore objects; stores[1] is GraphNodes.vector_store
    next_uuid,      \* the next value uuid4() returns
    pdf_processed,  \* st.session_state.pdf_processed
    pc,             \* where process_query is: the node to run next
    state,          \* the GraphState of the running invocation
    result,         \* what process_query returned
    trace,          \* the nodes the running invocation has run, in order
    obs,            \* what the running invocation met: model calls, failures
    ev              \* the last VectorStore call: arguments and outcome

vars == <<creds, cloud, stores, next_uuid, pdf_processed, pc, state, result,
          trace, obs, ev>>

store_vars == <<cloud, stores, next_uuid, pdf_processed>>
pipeline_vars == <<pc, state, result, trace, obs>>

\* n: the pairs zip(chunks, embeddings) of a store call has
Event(op, caller, inst, was_cloud, cloud_raised, ok, n, docs) ==
    [op |-> op, caller |-> caller, inst |-> inst, was_cloud |-> was_cloud,
     cloud_raised |-> cloud_raised, ok |-> ok, n |-> n, docs |-> docs]

NoObs == [llm_log |-> <<>>, classify_llm |-> [ok |-> TRUE, text |-> <<>>],
          provider_failed |-> FALSE, index_size |-> -1, embed_failed |-> FALSE,
          city_llm_ok |-> TRUE]

\* the records the active backend of a VectorStore object holds
index_size(self, c) ==
    IF self.use_cloud THEN Len(c.points)
    ELSE IF self.has_memory_store THEN Len(self.memory_store) ELSE 0

\* The process after AIProcessingGraph() has been constructed: GraphNodes
\* has made its VectorStore, with or without credentials.
Init ==
    \E credentials \in BOOLEAN, raises \in BOOLEAN :
        LET made == VectorStore_init(credentials,
                                     [exists |-> FALSE, points |-> <<>>], raises)
        IN  /\ creds = credentials
            /\ cloud = made.cloud
            /\ stores = <<made.self>>
            /\ next_uuid = 0
            /\ pdf_processed = FALSE
            /\ pc = "idle"
            /\ state = initial_state("")
            /\ result = <<>>
            /\ trace = <<>>
            /\ obs = NoObs
            /\ ev = Event("__init__", "pipeline", 1, credentials,
                          credentials /\ raises, TRUE, 0, <<>>)

Idle == pc = "idle"

(* ------------------------- VectorStore calls -------------------------- *)
\* store_embeddings called on an existing object
StoreEmbeddings ==
    /\ Idle
    /\ \E i \in DOMAIN stores, chunks \in CHUNK_LISTS,
          embeddings \in SeqsUpTo(VECTORS, MaxBatch), metadata \in METADATAS,
          raises \in BOOLEAN :
        /\ (raises => stores[i].use_cloud)
        /\ \A j \in DOMAIN embeddings : j > Len(chunks) => embeddings[j] = PAD_VECTOR
        /\ zip_len(chunks, embeddings) <= MaxUuids - next_uuid
        /\ LET r == store_embeddings(stores[i], cloud, chunks, embeddings, metadata,
                                     next_uuid, raises)
           IN  /\ next_uuid + r.uuids <= MaxUuids
               /\ stores' = [stores EXCEPT ![i] = r.self]
               /\ cloud' = r.cloud
               /\ next_uuid' = next_uuid + r.uuids
               /\ ev' = Event("store_embeddings", "api", i, stores[i].use_cloud,
                              r.cloud_raised, r.ok,
                              zip_len(chunks, embeddings), <<>>)
    /\ UNCHANGED <<creds, pdf_processed, pipeline_vars>>

\* search_similar called on an existing object
SearchSimilar ==
    /\ Idle
    /\ \E i \in DOMAIN stores, query \in QUERIES, limit \in LIMITS,
          embed_ok \in BOOLEAN, raises \in BOOLEAN, embed_ok2 \in BOOLEAN :
        /\ (raises => stores[i].use_cloud /\ embed_ok)
        /\ (~embed_ok2 => raises)
        /\ LET r == search_similar(stores[i], cloud, query, limit,
                                   embed_ok, raises, embed_ok2)
           IN  /\ stores' = [stores EXCEPT ![i] = r.self]
               /\ ev' = Event("search_similar", "api", i, stores[i].use_cloud,
                              r.cloud_raised, TRUE, 0, r.docs)
    /\ UNCHANGED <<creds, cloud, next_uuid, pdf_processed, pipeline_vars>>

\* get_collection_info called on an existing object
GetCollectionInfo ==
    /\ Idle
    /\ \E i \in DOMAIN stores, raises \in BOOLEAN :
        /\ (raises => stores[i].use_cloud)
        /\ LET r == get_collection_info(stores[i], cloud, raises)
           IN  ev' = Event("get_collection_info", "api", i, stores[i].use_cloud,
                           stores[i].use_cloud /\ (raises \/ ~cloud.exists),
                           ~r.raised, 0, <<>>)
    /\ UNCHANGED <<creds, store_vars, pipeline_vars>>

(* -------------------- one index, call by call ------------------------- *)
\* store_embeddings and search_similar on the pipeline's VectorStore with
\* the whole call kept in ev: vectors of which two are parallel, and caller
\* metadata that uses a key the records use as well.
INDEX_VECTORS == {<<1, 0>>, <<2, 0>>, <<1, 1>>}
INDEX_METADATAS ==
    {[filename |-> "doc.pdf"], [filename |-> "doc.pdf", chunk_index |-> 7]}

\* the chunks of a batch are texts no earlier batch had
new_chunks(uuid0, k) == SubSeq(CHUNK_TEXTS, uuid0 + 1, uuid0 + k)

IndexStore ==
    /\ Idle
    /\ \E k \in 1..MaxBatch, metadata \in INDEX_METADATAS, raises \in BOOLEAN :
        /\ next_uuid + k <= MaxUuids
        /\ (raises => stores[1].use_cloud)
        /\ \E embeddings \in [1..k -> INDEX_VECTORS] :
            \E r \in {store_embeddings(stores[1], cloud, new_chunks(next_uuid, k),
                                       embeddings, metadata, next_uuid, raises)} :
                /\ stores' = [stores EXCEPT ![1] = r.self]
                /\ cloud' = r.cloud
                /\ next_uuid' = next_uuid + r.uuids
                /\ ev' = [op |-> "store_embeddings",
                          was_cloud |-> stores[1].use_cloud,
                          cloud_raised |-> r.cloud_raised,
                          ok |-> r.ok,
                          chunks |-> new_chunks(next_uuid, k),
                          embeddings |-> embeddings,
                          metadata |-> metadata,
                          held |-> index_size(r.self, r.cloud) - k]
    /\ UNCHANGED <<creds, pdf_processed, pipeline_vars>>

IndexSearch ==
    /\ Idle
    /\ \E query \in QUERIES, limit \in LIMITS,
          embed_ok \in BOOLEAN, raises \in BOOLEAN, embed_ok2 \in BOOLEAN :
        /\ (raises => stores[1].use_cloud /\ embed_ok)
        /\ (~embed_ok2 => raises)
        /\ \E r \in {search_similar(stores[1], cloud, query, limit,
                                    embed_ok, raises, embed_ok2)} :
            /\ stores' = [stores EXCEPT ![1] = r.self]
            /\ ev' = [op |-> "search_similar",
                      was_cloud |-> stores[1].use_cloud,
                      cloud_raised |-> r.cloud_raised,
                      query |-> query,
                      limit |-> limit,
                      embedded |-> IF r.cloud_raised THEN embed_ok2 ELSE embed_ok,
                      docs |-> r.docs,
                      after_store |-> ev.op = "store_embeddings",
                      stored |-> IF ev.op = "store_embeddings" /\ ev.ok /\ ~ev.was_cloud
                                 THEN ev.chunks ELSE <<>>]
    /\ UNCHANGED <<creds, cloud, next_uuid, pdf_processed, pipeline_vars>>

(* ----------------------- services, call by call ----------------------- *)
\* The optional fields of a weather snapshot and a value for each.
OPTIONAL_FIELDS == {"country", "temperature", "feels_like", "humidity",
                    "description", "wind_speed"}
FIELD_VALUES == [country |-> "FR", temperature |-> "20.0", feels_like |-> "19.5",
                 humidity |-> "70", description |-> "cloudy", wind_speed |-> "2.1"]

\* Snapshots handed to format_weather_response: city present, every
\* optional field either missing, None or set.
SNAPSHOTS ==
    {[k \in {"city"} \cup {f \in OPTIONAL_FIELDS : shape[f] # "missing"} |->
        IF k = "city" THEN "Unknown"
        ELSE IF shape[k] = "None" THEN "None" ELSE FIELD_VALUES[k]] :
     shape \in [OPTIONAL_FIELDS -> {"missing", "None", "value"}]}

\* WeatherService.get_weather called with a city
GetWeather ==
    /\ Idle
    /\ \E city \in {TXT_London, strip(TXT_Paris_sp)}, http \in HttpOutcomes :
        ev' = [op |-> "get_weather", city |-> city, http |-> http,
               out |-> get_weather(city, http)]
    /\ UNCHANGED <<creds, store_vars, pipeline_vars>>

\* WeatherService.format_weather_response called with a snapshot
FormatWeatherResponse ==
    /\ Idle
    /\ \E weather_data \in SNAPSHOTS :
        ev' = [op |-> "format_weather_response", weather_data |-> weather_data,
               out |-> format_weather_response(weather_data)]
    /\ UNCHANGED <<creds, store_vars, pipeline_vars>>

\* PDFService.process_pdf called with a file
ProcessPdf ==
    /\ Idle
    /\ \E pdf \in PDFS, embed_ok \in BOOLEAN :
        ev' = [op |-> "process_pdf", pdf |-> pdf, embed_ok |-> embed_ok,
               out |-> process_pdf(pdf, embed_ok)]
    /\ UNCHANGED <<creds, store_vars, pipeline_vars>>

(* ---------------------------- ingestion ------------------------------- *)
\* process_pdf of app.py, run by the "Process PDF" button, which main()
\* shows while pdf_processed is false: PDFService.process_pdf, then, when
\* there are chunks, a new VectorStore and store_embeddings on it.
AppProcessPdf ==
    /\ Idle
    /\ ~pdf_processed
    /\ \E pdf \in PDFS, embed_ok \in BOOLEAN, setup_raises \in BOOLEAN,
          upsert_raises \in BOOLEAN :
        /\ (setup_raises => creds)
        /\ (upsert_raises => creds /\ ~setup_raises)
        /\ LET pdf_result == process_pdf(pdf, embed_ok)
               made == VectorStore_init(creds, cloud, setup_raises)
               r == store_embeddings(made.self, made.cloud, pdf_result.chunks,
                                     pdf_result.embeddings, [filename |-> "doc.pdf"],
                                     next_uuid, upsert_raises)
           IN  IF pdf_result.chunks # <<>>
               THEN /\ Len(stores) < MaxStores
                    /\ next_uuid + r.uuids <= MaxUuids
                    /\ stores' = Append(stores, r.self)
                    /\ cloud' = r.cloud
                    /\ next_uuid' = next_uuid + r.uuids
                    /\ pdf_processed' = r.ok
                    /\ ev' = Event("store_embeddings", "ingest", Len(stores) + 1,
                                   made.self.use_cloud,
                                   setup_raises \/ r.cloud_raised, r.ok,
                                   zip_len(pdf_result.chunks, pdf_result.embeddings),
                                   <<>>)
               ELSE /\ UNCHANGED store_vars
                    /\ ev' = Event("process_pdf", "ingest", 0, FALSE, FALSE, FALSE,
                                   0, <<>>)
    /\ UNCHANGED <<creds, pipeline_vars>>

(* ----------------------------- pipeline ------------------------------- *)
\* process_query: the initial state is built and graph.invoke starts at the
\* entry point
ProcessQueryStart ==
    /\ Idle
    /\ \E query \in QUERIES :
        /\ state' = initial_state(query)
        /\ ev' = Event("process_query", "pipeline", 1, stores[1].use_cloud,
                       FALSE, TRUE, 0, <<>>)
    /\ pc' = "classify_intent"
    /\ UNCHANGED <<creds, store_vars, result, trace, obs>>

\* node classify_intent, then the conditional edge
ClassifyIntent ==
    /\ pc = "classify_intent"
    /\ \E llm \in LLMOutcomes(CLASSIFY_REPLIES) :
        \E update \in {classify_intent(state, llm)} :
            /\ state' = apply_update(state, update)
            /\ pc' = next_node(apply_update(state, update))
            /\ obs' = [obs EXCEPT !.llm_log = Append(@, "classify_intent"),
                                  !.classify_llm = llm]
    /\ trace' = Append(trace, "classify_intent")
    /\ UNCHANGED <<creds, store_vars, result, ev>>

\* node fetch_weather, then the edge to generate_response
FetchWeather ==
    /\ pc = "fetch_weather"
    /\ \E llm \in LLMOutcomes(CITY_REPLIES), http \in HttpOutcomes :
        /\ \E update \in {fetch_weather(state, llm, http)} :
            state' = apply_update(state, update)
        /\ obs' = [obs EXCEPT !.llm_log = Append(@, "fetch_weather"),
                              !.city_llm_ok = llm.ok,
                              !.provider_failed =
                                  LET w == get_weather(strip(invoke(llm).content), http)
                                  IN  w.raised \/ w.is_none]
    /\ pc' = "generate_response"
    /\ trace' = Append(trace, "fetch_weather")
    /\ UNCHANGED <<creds, store_vars, result, ev>>

\* node retrieve_from_pdf, then the edge to generate_response
RetrieveFromPdf ==
    /\ pc = "retrieve_from_pdf"
    /\ \E embed_ok \in BOOLEAN, raises \in BOOLEAN, embed_ok2 \in BOOLEAN :
        /\ (raises => stores[1].use_cloud /\ embed_ok)
        /\ (~embed_ok2 => raises)
        /\ \E r \in {retrieve_from_pdf(state, stores[1], cloud, embed_ok, raises, embed_ok2)} :
               /\ state' = apply_update(state, r.update)
               /\ stores' = [stores EXCEPT ![1] = r.self]
               /\ obs' = [obs EXCEPT !.index_size = index_size(stores[1], cloud),
                                     !.embed_failed = ~embed_ok]
               /\ ev' = Event("search_similar", "pipeline", 1, stores[1].use_cloud,
                              r.cloud_raised, TRUE, 0, r.update.retrieved_docs)
    /\ pc' = "generate_response"
    /\ trace' = Append(trace, "retrieve_from_pdf")
    /\ UNCHANGED <<creds, cloud, next_uuid, pdf_processed, result>>

\* node generate_response, then the edge to END
GenerateResponse ==
    /\ pc = "generate_response"
    /\ \E llm \in LLMOutcomes(ANSWER_REPLIES) :
        \E r \in {generate_response(state, llm)} :
            /\ state' = apply_update(state, r.update)
            /\ obs' = [obs EXCEPT !.llm_log =
                          IF r.llm_called THEN Append(@, "generate_response") ELSE @]
    /\ pc' = "END"
    /\ trace' = Append(trace, "generate_response")
    /\ UNCHANGED <<creds, store_vars, result, ev>>

\* process_query: graph.invoke has returned the final state, or has raised
ProcessQueryReturn ==
    /\ pc \in {"END", "KeyError"}
    /\ result' = process_query(state.query, pc, state)
    /\ pc' = "returned"
    /\ UNCHANGED <<creds, store_vars, state, trace, obs, ev>>

\* main() of app.py: the chat handler takes result["response"] for the
\* message list; the invocation's state is dropped
AppShowResponse ==
    /\ pc = "returned"
    /\ pc' = "idle"
    /\ state' = initial_state("")
    /\ result' = <<>>
    /\ trace' = <<>>
    /\ obs' = NoObs
    /\ UNCHANGED <<creds, store_vars, ev>>

\* The application: uploads and chat queries of one session.
Next ==
    \/ AppProcessPdf
    \/ ProcessQueryStart
    \/ ClassifyIntent
    \/ FetchWeather
    \/ RetrieveFromPdf
    \/ GenerateResponse
    \/ ProcessQueryReturn
    \/ AppShowResponse

Spec == Init /\ [][Next]_vars

\* The VectorStore class under any sequence of calls of its public methods.
StoreNext ==
    \/ StoreEmbeddings
    \/ SearchSimilar
    \/ GetCollectionInfo

StoreSpec == Init /\ [][StoreNext]_vars

IndexNext ==
    \/ IndexStore
    \/ IndexSearch

IndexSpec == Init /\ [][IndexNext]_vars

ServiceNext ==
    \/ GetWeather
    \/ FormatWeatherResponse
    \/ ProcessPdf

ServiceSpec == Init /\ [][ServiceNext]_vars

\* graph.invoke runs the nodes of one invocation to the end, and
\* process_query then returns: no node of a started run is put off for ever
PipelineStep ==
    \/ ClassifyIntent
    \/ FetchWeather
    \/ RetrieveFromPdf
    \/ GenerateResponse
    \/ ProcessQueryReturn

FairSpec == Spec /\ WF_vars(PipelineStep)

(* ------------------------------ claims -------------------------------- *)
RESULT_KEYS == {"query", "intent", "response", "weather_data",
                "retrieved_docs_count", "metadata"}

Ran(node) == \E i \in DOMAIN trace : trace[i] = node
TimesRun(node) == Cardinality({i \in DOMAIN trace : trace[i] = node})
LlmCalledBy(node) == \E i \in DOMAIN obs.llm_log : obs.llm_log[i] = node

\* C1: whatever the query (the empty one included) and whatever failed on
\* the way (model, weather provider, embedder, vector store), process_query
\* returns a mapping with exactly the six result keys, and its intent is
\* weather, pdf or unknown.
C1_ResultWellFormed ==
    pc = "returned" =>
        /\ DOMAIN result = RESULT_KEYS
        /\ result.intent \in {WEATHER, PDF, UNKNOWN}

C1_Witness ==
    /\ pc = "returned"
    /\ result.query = ""
    /\ ~obs.classify_llm.ok
    /\ obs.embed_failed
    /\ DOMAIN result = RESULT_KEYS
    /\ result.intent = PDF

\* C2: once classify_intent has run, intent is exactly weather or pdf; and
\* it is pdf whenever the model call failed or the trimmed, lower-cased
\* reply is neither of the two words.
C2_IntentCoerced ==
    Ran("classify_intent") =>
        /\ state.intent \in {WEATHER, PDF}
        /\ (~obs.classify_llm.ok => state.intent = PDF)
        /\ (obs.classify_llm.ok /\ obs.classify_llm.text \in {TXT_weather_pdf, TXT_empty}
                => state.intent = PDF)
        /\ (obs.classify_llm.ok /\ lower(strip(obs.classify_llm.text)) \notin {WEATHER, PDF}
                => state.intent = PDF)

C2_Witness ==
    /\ Ran("classify_intent")
    /\ obs.classify_llm.ok
    /\ obs.classify_llm.text = TXT_weather_pdf
    /\ state.intent = PDF

\* C3: a run executes exactly one branch, and intent alone picks it:
\* fetch_weather when intent is weather, retrieve_from_pdf otherwise; never
\* both, and a finished run has not skipped both.
C3_OneBranch ==
    /\ ~(Ran("fetch_weather") /\ Ran("retrieve_from_pdf"))
    /\ (Ran("fetch_weather") => state.intent = WEATHER)
    /\ (Ran("retrieve_from_pdf") => state.intent # WEATHER)
    /\ (pc \in {"generate_response", "END", "returned"} =>
            /\ TimesRun("fetch_weather") + TimesRun("retrieve_from_pdf") = 1
            /\ (Ran("fetch_weather") <=> (state.intent = WEATHER)))

C3_Witness ==
    /\ pc = "returned"
    /\ state.intent = PDF
    /\ Ran("retrieve_from_pdf")
    /\ ~Ran("fetch_weather")

\* C4: the nodes of one invocation run in the order classify_intent, one
\* branch, generate_response, each at most once and each only when the one
\* before it is done; and every started invocation reaches its end.
StagesInOrder ==
    /\ trace \in {<<>>,
                  <<"classify_intent">>,
                  <<"classify_intent", "fetch_weather">>,
                  <<"classify_intent", "retrieve_from_pdf">>,
                  <<"classify_intent", "fetch_weather", "generate_response">>,
                  <<"classify_intent", "retrieve_from_pdf", "generate_response">>}
    /\ (pc = "classify_intent" => trace = <<>>)
    /\ (pc \in {"fetch_weather", "retrieve_from_pdf"} => trace = <<"classify_intent">>)
    /\ (pc = "generate_response" => Len(trace) = 2)
    /\ (pc \in {"END", "returned"} => Len(trace) = 3)

C4_SequentialToEnd ==
    /\ []StagesInOrder
    /\ (pc = "classify_intent") ~> (pc = "returned")

C4_Witness ==
    /\ pc = "returned"
    /\ trace = <<"classify_intent", "fetch_weather", "generate_response">>

\* C5 as stated: when generate_response starts, exactly one of weather_data
\* and retrieved_docs is non-empty, weather_data for intent weather and
\* retrieved_docs for intent pdf.
C5_AsClaimed ==
    pc = "generate_response" =>
        /\ (state.intent = WEATHER =>
                DOMAIN state.weather_data # {} /\ state.retrieved_docs = <<>>)
        /\ (state.intent = PDF =>
                DOMAIN state.weather_data = {} /\ state.retrieved_docs # <<>>)

\* C5 amended: when generate_response starts, at most one of weather_data
\* and retrieved_docs is non-empty, and intent fixes which one may be:
\* retrieved_docs is empty when intent is weather, weather_data is empty
\* when intent is pdf.
C5_AtMostOne ==
    pc = "generate_response" =>
        /\ state.intent \in {WEATHER, PDF}
        /\ (state.intent = WEATHER => state.retrieved_docs = <<>>)
        /\ (state.intent = PDF => DOMAIN state.weather_data = {})

C5_Witness ==
    /\ pc = "generate_response"
    /\ state.intent = PDF
    /\ state.retrieved_docs # <<>>
    /\ DOMAIN state.weather_data = {}

\* C6: a query classified as weather whose provider call failed ends with
\* an empty weather_data and the fixed "couldn't retrieve weather
\* information" response, and generate_response has called no model.
C6_WeatherFailure ==
    pc = "returned" /\ result.intent = WEATHER /\ obs.provider_failed =>
        /\ DOMAIN result.weather_data = {}
        /\ result.response = NO_WEATHER_MSG
        /\ ~LlmCalledBy("generate_response")

C6_Witness ==
    /\ pc = "returned"
    /\ result.intent = WEATHER
    /\ obs.provider_failed
    /\ result.response = NO_WEATHER_MSG

\* C7: a query classified as pdf, searched while the index held no record,
\* ends with retrieved_docs_count 0 and the fixed "couldn't find relevant
\* information" response, and generate_response has called no model.
C7_EmptyIndex ==
    pc = "returned" /\ result.intent = PDF /\ obs.index_size = 0 =>
        /\ result.retrieved_docs_count = 0
        /\ result.response = NO_DOCS_MSG
        /\ ~LlmCalledBy("generate_response")

C7_Witness ==
    /\ pc = "returned"
    /\ result.intent = PDF
    /\ obs.index_size = 0
    /\ ~obs.embed_failed
    /\ result.response = NO_DOCS_MSG

\* C8: demotion is one-way: an object whose use_cloud is false never has it
\* true again, and after a call in which the persistent store raised during
\* collection setup, store or search, use_cloud is false.
C8_DemotionOneWay ==
    /\ [][\A i \in DOMAIN stores : ~stores[i].use_cloud => ~stores'[i].use_cloud]_vars
    /\ [](ev.op \in {"__init__", "store_embeddings", "search_similar"}
            /\ ev.cloud_raised => ~stores[ev.inst].use_cloud)

C8_Witness ==
    /\ ev.op = "search_similar"
    /\ ev.was_cloud
    /\ ev.cloud_raised
    /\ ~stores[ev.inst].use_cloud

\* C9 as stated: on an object made with credentials whose collection setup
\* succeeded, a store_embeddings call whose upsert fails appends the pairs
\* to the local collection and returns true.
C9_AsClaimed ==
    ev.op = "store_embeddings" /\ ev.was_cloud /\ ev.cloud_raised =>
        /\ ev.ok
        /\ Len(stores[ev.inst].memory_store) >= ev.n

\* C10 as stated: when the ingestion flow's VectorStore and the pipeline's
\* both use the local backend, a record the ingestion stored is found by
\* the pipeline's later search.
C10_AsClaimed ==
    /\ pc = "generate_response"
    /\ Ran("retrieve_from_pdf")
    /\ ~ev.was_cloud
    /\ ~obs.embed_failed
    /\ \E i \in DOMAIN stores :
            i # 1 /\ ~stores[i].use_cloud /\ stores[i].memory_store # <<>>
    => state.retrieved_docs # <<>>

\* the last call was a search that the local backend answered: a search of
\* an object on the local backend, or the retry after the persistent one
\* raised
LocalSearch == ev.op = "search_similar" /\ (~ev.was_cloud \/ ev.cloud_raised)

\* C11 as stated: for every content of the local collection, every query
\* and every integer limit, a local-backend search returns at most limit
\* results (none for a limit below 1), and the scores of the results are
\* non-increasing from first to last.
C11_AsClaimed ==
    LocalSearch =>
        /\ Len(ev.docs) <= Max(ev.limit, 0)
        /\ \A i \in 1..(Len(ev.docs) - 1) :
                score_ge(ev.docs[i].score, ev.docs[i + 1].score)

\* a score equal to 1
score_is_one(s) == s.num > 0 /\ s.num * s.num = s.densq

\* the records of the pipeline object's local collection, and the score
\* each has for the query of the last search
held_records == stores[1].memory_store
held_score(i) == cosine_similarity(encode(ev.query), held_records[i].vector)

\* The last two calls were: a store of one chunk that the local backend
\* took, then a local search whose query vector is that chunk's vector.
RoundTrip ==
    /\ LocalSearch
    /\ ev.embedded
    /\ Len(ev.stored) = 1
    /\ held_records # <<>>
    /\ held_records[Len(held_records)].text = ev.stored[1]
    /\ held_records[Len(held_records)].vector = encode(ev.query)
    /\ dot(encode(ev.query), encode(ev.query)) # 0

\* C12 as stated: after storing one chunk with a known non-zero vector, a
\* search (for at least one result) whose query vector equals that vector
\* returns that chunk first, with score 1, whatever the collection held.
C12_AsClaimed ==
    RoundTrip /\ ev.limit >= 1 =>
        /\ ev.docs # <<>>
        /\ ev.docs[1].text = ev.stored[1]
        /\ score_is_one(ev.docs[1].score)

\* C12 amended: such a search for at least one result returns a result;
\* whenever it returns any, the first one has score 1 and is the earliest
\* stored record whose score is 1: the chunk just stored when no record
\* held before it has a vector parallel to it, an earlier record otherwise.
C12_RoundTrip ==
    RoundTrip =>
        /\ (ev.limit >= 1 => ev.docs # <<>>)
        /\ (ev.docs # <<>> =>
                /\ score_is_one(ev.docs[1].score)
                /\ \E i \in DOMAIN held_records :
                    /\ ev.docs[1].text = held_records[i].text
                    /\ score_is_one(held_score(i))
                    /\ \A j \in 1..(i - 1) : ~score_is_one(held_score(j))
                /\ ((\A j \in 1..(Len(held_records) - 1) : ~score_is_one(held_score(j)))
                        => ev.docs[1].text = ev.stored[1]))

C12_Witness ==
    /\ RoundTrip
    /\ Len(held_records) >= 2
    /\ ev.limit >= 1
    /\ ev.docs[1].text = ev.stored[1]
    /\ score_is_one(ev.docs[1].score)

\* C13 as stated: when the model call of classify_intent failed, the
\* result's metadata has intent_classification "error" and intent is pdf;
\* when the call succeeded, intent_classification is the classification.
C13_AsClaimed ==
    pc = "returned" /\ Ran("classify_intent") =>
        /\ (~obs.classify_llm.ok =>
                /\ result.metadata.intent_classification = ERROR
                /\ result.intent = PDF)
        /\ (obs.classify_llm.ok =>
                result.metadata.intent_classification = result.intent)

\* the response field each optional snapshot field is read from
BODY_FIELD_OF == [country |-> "sys.country", temperature |-> "main.temp",
                  feels_like |-> "main.feels_like", humidity |-> "main.humidity",
                  wind_speed |-> "wind.speed"]

\* C14 as stated: for every successful provider response (the request
\* completed, the body is an object reporting code 200), get_weather
\* returns a snapshot, and each of country, temperature, feels_like,
\* humidity, description and wind_speed absent from the body is None in it.
C14_AsClaimed ==
    ev.op = "get_weather" /\ ev.http.kind = "object"
        /\ ev.http.cod \in {"200", "'200'"} =>
        /\ ~ev.out.raised
        /\ ~ev.out.is_none
        /\ \A f \in DOMAIN BODY_FIELD_OF :
                BODY_FIELD_OF[f] \in ev.http.absent => ev.out.value[f] = "None"
        /\ (ev.http.weather \in {"absent", "empty_list", "no_description"}
                => ev.out.value.description = "None")

\* C15 as stated: when the request completed, passed the HTTP status check
\* and the body carries name, sys.country, main.temp, main.feels_like,
\* main.humidity, weather[0].description and wind.speed (and reports no
\* error code), get_weather returns a snapshot with exactly those values.
C15_AsClaimed ==
    ev.op = "get_weather" /\ ev.http.kind = "object" /\ ev.http.absent = {}
        /\ ev.http.weather = "description" /\ ev.http.cod # "404" =>
        /\ ~ev.out.raised
        /\ ~ev.out.is_none
        /\ ev.out.value = [city |-> TXT_London, country |-> "GB",
                           temperature |-> "15.5", feels_like |-> "14.2",
                           humidity |-> "65", description |-> "cloudy",
                           wind_speed |-> "3.2"]

\* C16 as stated: format_weather_response raises for no snapshot in which
\* any of the optional fields are missing or None; it returns the summary
\* with something in each of the seven positions.
C16_AsClaimed ==
    ev.op = "format_weather_response" =>
        /\ ~ev.out.raised
        /\ Len(ev.out.text) = 7

\* C17 as stated: for every input, a file without text or without chunks
\* included, the result of process_pdf has the keys chunks, embeddings and
\* metadata, and metadata has source and total_chunks.
C17_AsClaimed ==
    ev.op = "process_pdf" =>
        /\ DOMAIN ev.out = {"chunks", "embeddings", "metadata"}
        /\ {"source", "total_chunks"} \subseteq DOMAIN ev.out.metadata

\* C18 as stated: once fetch_weather has run, a failed city-extraction
\* model call leaves weather_data the empty mapping whatever the provider
\* answered, and so does a failed provider call; the node always returns
\* (the pipeline has moved on to generate_response).
C18_AsClaimed ==
    Ran("fetch_weather") /\ pc = "generate_response" =>
        /\ (~obs.city_llm_ok => DOMAIN state.weather_data = {})
        /\ (obs.provider_failed => DOMAIN state.weather_data = {})

\* the records of the backend the last store call wrote to
stored_records ==
    IF stores[1].use_cloud THEN cloud.points ELSE stores[1].memory_store

\* every id the index holds, cloud and local
stored_ids ==
    {cloud.points[i].id : i \in 1..Len(cloud.points)}
        \cup {stores[1].memory_store[i].id : i \in 1..Len(stores[1].memory_store)}

\* C19 as stated: after a store_embeddings call that stored its batch, on
\* the cloud or the local backend and for every caller metadata, the i-th
\* record of the batch (counted from 0) carries chunk_index i and every
\* caller metadata key with the caller's value, and no two stored records
\* share an id.
C19_AsClaimed ==
    ev.op = "store_embeddings" /\ ev.ok =>
        /\ \A i \in 1..Len(ev.chunks) :
            LET rec == stored_records[ev.held + i]
                fields == IF stores[1].use_cloud THEN rec.payload ELSE rec
                meta == IF stores[1].use_cloud THEN rec.payload ELSE rec.metadata
            IN  /\ fields.text = ev.chunks[i]
                /\ fields.chunk_index = i - 1
                /\ \A key \in DOMAIN ev.metadata :
                        key \in DOMAIN meta /\ meta[key] = ev.metadata[key]
        /\ Cardinality(stored_ids)
                = Len(cloud.points) + Len(stores[1].memory_store)

\* record j stands before record i in the stable descending ranking: its
\* score is higher, or equal and it was stored earlier
ranks_before(j, i) ==
    IF score_ge(held_score(i), held_score(j))
    THEN score_ge(held_score(j), held_score(i)) /\ j < i
    ELSE TRUE

\* the place of record i in that ranking
rank_of(i) == 1 + Cardinality({j \in 1..Len(held_records) : ranks_before(j, i)})

\* C20: a local-backend search that embedded its query returns, at place
\* p, the record that has exactly p - 1 records before it in the ranking
\* by descending score with equal scores in stored order; with a limit of
\* 0 or more the result has min(limit, number of records) elements.
C20_StableTopK ==
    LocalSearch /\ ev.embedded =>
        /\ (ev.limit >= 0 => Len(ev.docs) = Min(ev.limit, Len(held_records)))
        /\ Len(ev.docs) <= Len(held_records)
        /\ \A p \in 1..Len(ev.docs) :
            \E i \in 1..Len(held_records) :
                /\ rank_of(i) = p
                /\ ev.docs[p].text = held_records[i].text
                /\ ev.docs[p].score = held_score(i)
                /\ ev.docs[p].metadata = held_records[i].metadata

\* a local search returned two records of equal score, the one stored
\* first in front
C20_Witness ==
    /\ LocalSearch
    /\ ev.embedded
    /\ Len(ev.docs) >= 2
    /\ Len(held_records) >= 2
    /\ score_ge(held_score(1), held_score(2))
    /\ score_ge(held_score(2), held_score(1))
    /\ ev.docs[1].text = held_records[1].text
    /\ ev.docs[2].text = held_records[2].text

\* the last call was the store_embeddings of the ingestion flow
IngestStore == ev.op = "store_embeddings" /\ ev.caller = "ingest"

\* C21 as stated: the ingestion flow calls store_embeddings only with at
\* least one (chunk, embedding) pair, so never after create_embeddings
\* returned [] for its chunks, and pdf_processed is set by it only when at
\* least one record was stored.
C21_AsClaimed ==
    IngestStore =>
        /\ ev.n > 0
        /\ (pdf_processed => ev.ok /\ ev.n > 0)

\* the fields of the pipeline state a step changes
changed_fields == {f \in DOMAIN state : state'[f] # state[f]}

\* the fields each stage writes
OWN_FIELDS == [classify_intent |-> {"intent", "metadata"},
               fetch_weather |-> {"weather_data"},
               retrieve_from_pdf |-> {"retrieved_docs"},
               generate_response |-> {"final_response"}]

\* C22: a step of a stage keeps the keys of the pipeline state, changes
\* only the stage's own fields (classify_intent: intent and metadata,
\* fetch_weather: weather_data, retrieve_from_pdf: retrieved_docs,
\* generate_response: final_response), never query, and keeps every
\* metadata key and its value that was there before; process_query puts
\* the query it was given into the state and returns that same query.
C22_StageFrame ==
    [][ /\ (pc \in DOMAIN OWN_FIELDS =>
                /\ DOMAIN state' = DOMAIN state
                /\ changed_fields \subseteq OWN_FIELDS[pc]
                /\ state'.query = state.query
                /\ \A k \in DOMAIN state.metadata :
                        k \in DOMAIN state'.metadata
                            /\ state'.metadata[k] = state.metadata[k])
        /\ (pc \in {"END", "KeyError"} =>
                result'.query = state.query /\ state' = state)
      ]_vars

\* a document query has come back: classify_intent, retrieve_from_pdf and
\* generate_response each wrote their fields, and the result carries the
\* query that was asked
C22_Witness ==
    /\ pc = "returned"
    /\ trace = <<"classify_intent", "retrieve_from_pdf", "generate_response">>
    /\ state.query = "what is in the document?"
    /\ result.query = "what is in the document?"
    /\ state.intent = PDF
    /\ DOMAIN state.metadata = {"intent_classification"}
    /\ state.retrieved_docs # <<>>
    /\ state.final_response # <<>>

\* old is the beginning of new, record for record
IsPrefix(old, new) == Len(old) <= Len(new) /\ SubSeq(new, 1, Len(old)) = old

\* C23 as stated: with every call on a VectorStore object, the local
\* collection of each object keeps the records it had, in place and
\* unaltered; search_similar and get_collection_info leave it as it was;
\* store_embeddings on an object whose backend is the local one lengthens
\* it by exactly min(len(chunks), len(embeddings)) records.
C23_AsClaimed ==
    [][ \A i \in DOMAIN stores :
            /\ IsPrefix(stores[i].memory_store, stores'[i].memory_store)
            /\ (ev'.op \in {"search_similar", "get_collection_info"} =>
                    stores'[i].memory_store = stores[i].memory_store)
            /\ (ev'.op = "store_embeddings" /\ ev'.inst = i /\ ~stores[i].use_cloud =>
                    Len(stores'[i].memory_store)
                        = Len(stores[i].memory_store) + ev'.n)
      ]_vars
====
